---- MODULE Spec2Model ----
(***************************************************************************)
(* A model of patisson_graphql: the Stmt statement builder                 *)
(* (stmt_filter.py) and the selected_fields extractor (selected_fields.py).*)
(***************************************************************************)
EXTENDS Integers, Sequences, FiniteSets, TLC

VARIABLES
    orig,       \* the Select handed to Stmt.__init__ (never reassigned by the code)
    stmt,       \* Stmt.stmt: the current Select
    log_list,   \* Stmt.log_list
    ret,        \* what the last call returned: "self", or the text log() returned
    last,       \* the last call made on the builder: its method and its arguments
    ncalls,     \* number of filter, order and pagination calls made so far
    npresent,   \* number of calls so far whose argument was neither None nor empty
    calls,      \* the calls made so far, in order (kept by the usage scenario only)
    info,       \* the GraphQLResolveInfo a resolver is given: field_nodes, fragments
    result,     \* how the resolver's call of selected_fields ended
    handler,    \* per request: which graphql_server serves it
    pc,         \* per request: where its graphql_server is
    session,    \* per request: the database session of its session_gen
    exc,        \* per request: the exception that is leaving the handler's body
    used,       \* per request: whether a resolver has used the session
    success,    \* per request: the success flag graphql(...) returned
    outcome     \* per request: how graphql_server ended

stmtVars == <<orig, stmt, log_list, ret, last, ncalls, npresent, calls>>
infoVars == <<info, result>>
serverVars == <<handler, pc, session, exc, used, success, outcome>>
vars == <<stmtVars, infoVars, serverVars>>

(***************************************************************************)
(* Bounds.                                                                 *)
(***************************************************************************)
MaxOps == 2
MaxNodes == 3
NumRequests == 2

(***************************************************************************)
(* Python values: None, int, str, list, and a Column, whose truth value    *)
(* is its own (an object may define __bool__).                             *)
(***************************************************************************)
PyNone == [t |-> "None"]
PyInt(n) == [t |-> "int", i |-> n]
PyStr(x) == [t |-> "str", s |-> x]
PyList(xs) == [t |-> "list", l |-> xs]
Column(n, b) == [t |-> "Column", table |-> "user", name |-> n, truthy |-> b]

\* bool(v)
Truthy(v) ==
    CASE v.t = "None" -> FALSE
      [] v.t = "int" -> v.i # 0
      [] v.t = "str" -> v.s # ""
      [] v.t = "list" -> Len(v.l) > 0
      [] v.t = "Column" -> v.truthy

\* repr(v) of a list element
PyRepr(v) ==
    CASE v.t = "None" -> "None"
      [] v.t = "int" -> ToString(v.i)
      [] v.t = "str" -> "'" \o v.s \o "'"

RECURSIVE JoinStr(_, _)
\* sep.join(xs)
JoinStr(xs, sep) ==
    IF Len(xs) = 0 THEN ""
    ELSE IF Len(xs) = 1 THEN Head(xs)
    ELSE Head(xs) \o sep \o JoinStr(Tail(xs), sep)

\* str(v), as an f-string formats {v}
PyFormat(v) ==
    CASE v.t = "None" -> "None"
      [] v.t = "int" -> ToString(v.i)
      [] v.t = "str" -> v.s
      [] v.t = "list" ->
           "[" \o JoinStr([k \in 1..Len(v.l) |-> PyRepr(v.l[k])], ", ") \o "]"

(***************************************************************************)
(* The Select: the query the builder was given and the generative calls    *)
(* made on it since, each of which derives a new Select.                   *)
(***************************************************************************)
SelectOf(cols, from) == [cols |-> cols, from |-> from, chain |-> <<>>]

Generative(q, m, e) == [q EXCEPT !.chain = Append(@, [m |-> m, e |-> e])]

SelectFilter(q, e) == Generative(q, "filter", e)
SelectWhere(q, e) == Generative(q, "where", e)
SelectOrderBy(q, c) == Generative(q, "order_by", c)
SelectLimit(q, n) == Generative(q, "limit", n)
SelectOffset(q, n) == Generative(q, "offset", n)

\* column <cmp> value
BinaryExpr(column, cmp, v) ==
    [table |-> column.table, col |-> column.name, cmp |-> cmp, v |-> v]

(***************************************************************************)
(* str(select): the text SQLAlchemy's default compiler gives a Select, as  *)
(* its lines. FROM and WHERE start a line of their own (after a blank      *)
(* closing the line before), ORDER BY continues the line it follows, and   *)
(* LIMIT starts a line. A Select takes its FROM list from its columns and  *)
(* its WHERE criteria.                                                     *)
(***************************************************************************)
AddText(lines, s) == [lines EXCEPT ![Len(lines)] = @ \o s]
NewLine(lines, s) == Append(lines, s)

IsCriterion(c) == c.m \in {"filter", "where"}
IsOrderBy(c) == c.m = "order_by"
IsLimit(c) == c.m = "limit"
IsOffset(c) == c.m = "offset"

SqlOperator(cmp) == IF cmp = "==" THEN "=" ELSE cmp

CriterionText(e, k) ==
    e.table \o "." \o e.col \o " " \o SqlOperator(e.cmp) \o " :" \o e.col \o "_"
        \o ToString(k)

StrSelect(q) ==
    LET crit == SelectSeq(q.chain, IsCriterion)
        obs == SelectSeq(q.chain, IsOrderBy)
        lims == SelectSeq(q.chain, IsLimit)
        offs == SelectSeq(q.chain, IsOffset)
        froms == IF q.from # "" THEN q.from
                 ELSE IF Len(crit) > 0 THEN crit[1].e.table ELSE ""
        t0 == <<"SELECT " \o q.cols>>
        t1 == IF froms # "" THEN NewLine(AddText(t0, " "), "FROM " \o froms) ELSE t0
        t2 == IF Len(crit) > 0
              THEN NewLine(AddText(t1, " "),
                           "WHERE " \o JoinStr([k \in 1..Len(crit) |->
                                                  CriterionText(crit[k].e, k)], " AND "))
              ELSE t1
        t3 == IF Len(obs) > 0
              THEN AddText(t2, " ORDER BY " \o
                               JoinStr([k \in 1..Len(obs) |->
                                          obs[k].e.table \o "." \o obs[k].e.name], ", "))
              ELSE t2
        t4 == IF Len(lims) > 0 THEN NewLine(t3, " LIMIT :param_1")
              ELSE IF Len(offs) > 0 THEN NewLine(t3, " LIMIT -1")
              ELSE t3
        t5 == IF Len(offs) > 0 THEN AddText(t4, " OFFSET :param_2") ELSE t4
    IN  t5

\* str(select).split('\n', 1)[0]
FirstLine(q) == Head(StrSelect(q))

(***************************************************************************)
(* Stmt.                                                                   *)
(***************************************************************************)
Self == [t |-> "Stmt"]

\* the argument is neither None nor an empty string or collection
Present(arg) ==
    CASE arg.t = "None" -> FALSE
      [] arg.t = "str" -> arg.s # ""
      [] arg.t = "list" -> Len(arg.l) > 0
      [] OTHER -> TRUE

\* bookkeeping of a call: what was called, and with what
Called(m, column, arg, counted) ==
    /\ last' = [m |-> m, col |-> column, arg |-> arg]
    /\ ncalls' = ncalls + 1
    /\ npresent' = npresent + (IF counted THEN 1 ELSE 0)
    /\ orig' = orig

\* bookkeeping of a call that reads the builder: __call__, log
Read(m, arg) ==
    /\ last' = [m |-> m, col |-> PyNone, arg |-> arg]
    /\ UNCHANGED <<ncalls, npresent, orig>>

\* Stmt.__init__
StmtInit(select) ==
    /\ orig = select
    /\ stmt = select
    /\ log_list = <<>>
    /\ ret = Self
    /\ last = [m |-> "__init__", col |-> PyNone, arg |-> PyNone]
    /\ ncalls = 0
    /\ npresent = 0

\* Stmt.__call__
call ==
    /\ ret' = [t |-> "Select", q |-> stmt]
    /\ UNCHANGED <<stmt, log_list>>
    /\ Read("__call__", PyNone)

RECURSIVE LogLines(_, _)
\* the loop of Stmt.log: log += pre + i + '\n' for each i of log_list
LogLines(entries, pre) ==
    IF Len(entries) = 0 THEN ""
    ELSE pre \o Head(entries) \o "\n" \o LogLines(Tail(entries), pre)

\* log as it would be with the separator left out of the loop
log_NoSeparator(pre) ==
    /\ ret' = PyStr(FirstLine(stmt) \o "\n" \o LogLines(log_list, ""))
    /\ UNCHANGED <<stmt, log_list>>
    /\ Read("log", PyStr(pre))

\* Stmt.log
log(pre) ==
    /\ ret' = PyStr(FirstLine(stmt) \o "\n" \o LogLines(log_list, pre))
    /\ UNCHANGED <<stmt, log_list>>
    /\ Read("log", PyStr(pre))

\* lte_filter as it would be with the test `if op is not None`
lte_filter_IsNotNone(column, op) ==
    /\ IF op # PyNone
       THEN /\ stmt' = SelectFilter(stmt, BinaryExpr(column, "<=", op))
            /\ log_list' = Append(log_list, column.name \o " <= " \o PyFormat(op))
       ELSE UNCHANGED <<stmt, log_list>>
    /\ ret' = Self
    /\ Called("lte_filter", column, op, Present(op))

lte_filter(column, op) ==
    /\ IF Truthy(op)
       THEN /\ stmt' = SelectFilter(stmt, BinaryExpr(column, "<=", op))
            /\ log_list' = Append(log_list, column.name \o " <= " \o PyFormat(op))
       ELSE UNCHANGED <<stmt, log_list>>
    /\ ret' = Self
    /\ Called("lte_filter", column, op, Present(op))

\* gte_filter as it would be with log_list.insert(0, ...)
gte_filter_InsertFirst(column, op) ==
    /\ IF Truthy(op)
       THEN /\ stmt' = SelectFilter(stmt, BinaryExpr(column, ">=", op))
            /\ log_list' = <<column.name \o " >= " \o PyFormat(op)>> \o log_list
       ELSE UNCHANGED <<stmt, log_list>>
    /\ ret' = Self
    /\ Called("gte_filter", column, op, Present(op))

gte_filter(column, op) ==
    /\ IF Truthy(op)
       THEN /\ stmt' = SelectFilter(stmt, BinaryExpr(column, ">=", op))
            /\ log_list' = Append(log_list, column.name \o " >= " \o PyFormat(op))
       ELSE UNCHANGED <<stmt, log_list>>
    /\ ret' = Self
    /\ Called("gte_filter", column, op, Present(op))

lt_filter(column, op) ==
    /\ IF Truthy(op)
       THEN /\ stmt' = SelectFilter(stmt, BinaryExpr(column, "<", op))
            /\ log_list' = Append(log_list, column.name \o " < " \o PyFormat(op))
       ELSE UNCHANGED <<stmt, log_list>>
    /\ ret' = Self
    /\ Called("lt_filter", column, op, Present(op))

gt_filter(column, op) ==
    /\ IF Truthy(op)
       THEN /\ stmt' = SelectFilter(stmt, BinaryExpr(column, ">", op))
            /\ log_list' = Append(log_list, column.name \o " > " \o PyFormat(op))
       ELSE UNCHANGED <<stmt, log_list>>
    /\ ret' = Self
    /\ Called("gt_filter", column, op, Present(op))

eq_filter(column, op) ==
    /\ IF Truthy(op)
       THEN /\ stmt' = SelectFilter(stmt, BinaryExpr(column, "==", op))
            /\ log_list' = Append(log_list, column.name \o " == " \o PyFormat(op))
       ELSE UNCHANGED <<stmt, log_list>>
    /\ ret' = Self
    /\ Called("eq_filter", column, op, Present(op))

\* con_filter as it would be with the test `if ops is not None`
con_filter_IsNotNone(column, ops) ==
    /\ IF ops # PyNone
       THEN /\ stmt' = SelectFilter(stmt, BinaryExpr(column, "IN", ops))
            /\ log_list' = Append(log_list, column.name \o " in " \o PyFormat(ops))
       ELSE UNCHANGED <<stmt, log_list>>
    /\ ret' = Self
    /\ Called("con_filter", column, ops, Present(ops))

con_filter(column, ops) ==
    /\ IF Truthy(ops)
       THEN /\ stmt' = SelectFilter(stmt, BinaryExpr(column, "IN", ops))
            /\ log_list' = Append(log_list, column.name \o " in " \o PyFormat(ops))
       ELSE UNCHANGED <<stmt, log_list>>
    /\ ret' = Self
    /\ Called("con_filter", column, ops, Present(ops))

not_con_filter(column, ops) ==
    /\ IF Truthy(ops)
       THEN /\ stmt' = SelectFilter(stmt, BinaryExpr(column, "NOT IN", ops))
            /\ log_list' = Append(log_list, column.name \o " not in " \o PyFormat(ops))
       ELSE UNCHANGED <<stmt, log_list>>
    /\ ret' = Self
    /\ Called("not_con_filter", column, ops, Present(ops))

con_model_filter(column, ops) ==
    /\ IF Truthy(ops)
       THEN /\ stmt' = SelectFilter(stmt, BinaryExpr(column, "ANY name IN", ops))
            /\ log_list' = Append(log_list,
                                  column.name \o " relationship in " \o PyFormat(ops))
       ELSE UNCHANGED <<stmt, log_list>>
    /\ ret' = Self
    /\ Called("con_model_filter", column, ops, Present(ops))

like_filter(column, op) ==
    /\ IF Truthy(op)
       THEN /\ stmt' = SelectFilter(stmt, BinaryExpr(column, "LIKE", op))
            /\ log_list' = Append(log_list, column.name \o " like " \o PyFormat(op))
       ELSE UNCHANGED <<stmt, log_list>>
    /\ ret' = Self
    /\ Called("like_filter", column, op, Present(op))

where_filter(column, op) ==
    /\ IF Truthy(op)
       THEN /\ stmt' = SelectWhere(stmt, BinaryExpr(column, "==", op))
            /\ log_list' = Append(log_list, column.name \o " where " \o PyFormat(op))
       ELSE UNCHANGED <<stmt, log_list>>
    /\ ret' = Self
    /\ Called("where_filter", column, op, Present(op))

\* ordered_by as it would be with the test `if column`
ordered_by_IfTruthy(column) ==
    /\ IF Truthy(column)
       THEN /\ stmt' = SelectOrderBy(stmt, column)
            /\ log_list' = Append(log_list, "order by " \o column.name)
       ELSE UNCHANGED <<stmt, log_list>>
    /\ ret' = Self
    /\ Called("ordered_by", column, column, Present(column))

ordered_by(column) ==
    /\ IF column # PyNone
       THEN /\ stmt' = SelectOrderBy(stmt, column)
            /\ log_list' = Append(log_list, "order by " \o column.name)
       ELSE UNCHANGED <<stmt, log_list>>
    /\ ret' = Self
    /\ Called("ordered_by", column, column, Present(column))

\* limit as it would be with the test `if num is not None`
limit_IsNotNone(num) ==
    /\ IF num # PyNone
       THEN /\ stmt' = SelectLimit(stmt, num)
            /\ log_list' = Append(log_list, "limit " \o PyFormat(num))
       ELSE UNCHANGED <<stmt, log_list>>
    /\ ret' = Self
    /\ Called("limit", PyNone, num, Present(num))

limit(num) ==
    /\ IF Truthy(num)
       THEN /\ stmt' = SelectLimit(stmt, num)
            /\ log_list' = Append(log_list, "limit " \o PyFormat(num))
       ELSE UNCHANGED <<stmt, log_list>>
    /\ ret' = Self
    /\ Called("limit", PyNone, num, Present(num))

offset(num) ==
    /\ IF Truthy(num)
       THEN /\ stmt' = SelectOffset(stmt, num)
            /\ log_list' = Append(log_list, "offset " \o PyFormat(num))
       ELSE UNCHANGED <<stmt, log_list>>
    /\ ret' = Self
    /\ Called("offset", PyNone, num, Present(num))

(***************************************************************************)
(* The selection tree of a GraphQL operation. info.ast gives every         *)
(* selection node by its number: its kind, its name (of the field, or of   *)
(* the fragment a spread refers to) and its selection_set, which is None   *)
(* or holds the numbers of its selections in order. info.field_nodes are   *)
(* the root field nodes, info.fragments the fragment definitions by name.  *)
(***************************************************************************)
FieldNames == {"a", "b"}
FragmentName == "F"
NodeKinds == {"FieldNode", "InlineFragmentNode", "FragmentSpreadNode", "OtherNode"}
RootNames == <<"users", "books">>

SelectionSet(ids) == [t |-> "SelectionSet", selections |-> ids]

\* the numbers of the set ids in increasing order
RECURSIVE Ascending(_)
Ascending(ids) ==
    IF ids = {} THEN <<>>
    ELSE LET least == CHOOSE i \in ids : \A j \in ids : i <= j
         IN  <<least>> \o Ascending(ids \ {least})

\* A tree of n nodes: node i is of kind[i] and name[i], and lies in the
\* selection set of in[i]: a root field, the fragment, or an earlier node.
Places(i) ==
    {[of |-> "root", k |-> r] : r \in 1..Len(RootNames)}
        \cup {[of |-> "fragment", k |-> 1]}
        \cup {[of |-> "node", k |-> j] : j \in 1..(i - 1)}

Labels ==
    {[kind |-> "FieldNode", name |-> f] : f \in FieldNames}
        \cup {[kind |-> "InlineFragmentNode", name |-> ""],
              [kind |-> "FragmentSpreadNode", name |-> FragmentName],
              [kind |-> "OtherNode", name |-> ""]}

Under(shape, place) == {i \in DOMAIN shape : shape[i].in = place}

RECURSIVE InFragment(_, _)
InFragment(shape, i) ==
    CASE shape[i].in.of = "fragment" -> TRUE
      [] shape[i].in.of = "root" -> FALSE
      [] OTHER -> InFragment(shape, shape[i].in.k)

\* The trees a validated document can give a resolver, and trees with a
\* node of a kind the extractor does not know: only fields and inline
\* fragments hold selections, an inline fragment holds at least one, and
\* the fragment does not spread itself.
WellFormed(shape) ==
    \A i \in DOMAIN shape :
        /\ shape[i].in.of = "node" =>
               shape[shape[i].in.k].label.kind \in {"FieldNode", "InlineFragmentNode"}
        /\ shape[i].label.kind = "InlineFragmentNode" =>
               Under(shape, [of |-> "node", k |-> i]) # {}
        /\ shape[i].label.kind = "FragmentSpreadNode" => ~InFragment(shape, i)

Shapes(n) ==
    {shape \in [1..n -> [label : Labels, in : Places(n)]] :
        /\ \A i \in 1..n : shape[i].in \in Places(i)
        /\ WellFormed(shape)}

SelectionSetOf(shape, place) ==
    IF Under(shape, place) = {} THEN PyNone
    ELSE SelectionSet(Ascending(Under(shape, place)))

InfoOf(shape) ==
    [field_nodes |->
         [r \in 1..Len(RootNames) |->
            [kind |-> "FieldNode", name |-> RootNames[r],
             selection_set |-> SelectionSetOf(shape, [of |-> "root", k |-> r])]],
     fragments |->
         [x \in {FragmentName} |->
            [name |-> x,
             selection_set |->
                 SelectionSet(Ascending(Under(shape, [of |-> "fragment", k |-> 1])))]],
     ast |->
         [i \in DOMAIN shape |->
            [kind |-> shape[i].label.kind, name |-> shape[i].label.name,
             selection_set |-> SelectionSetOf(shape, [of |-> "node", k |-> i])]]]

(***************************************************************************)
(* selected_fields.                                                        *)
(***************************************************************************)
Returned(v) == [status |-> "returned", value |-> v]
Raised(e) == [status |-> "raised", exc |-> e]
Pending == [status |-> "pending"]

\* getattr(model, field) on the mapped class
GetAttr(field) == [t |-> "InstrumentedAttribute", key |-> field]

\* the FieldNode case as it would be without the recursion into the
\* field's own selection set
FieldCase_NoRecursion(node, sub) == Returned(<<node.name>>)

\* case FieldNode(): the name, then the names of the sub-selection if any
FieldCase(node, sub) ==
    IF node.selection_set # PyNone
    THEN IF sub.status = "raised" THEN sub
         ELSE Returned(<<node.name>> \o sub.value)
    ELSE Returned(<<node.name>>)

\* the default case as it would be if it passed over the node
DefaultCase_Skip(node) == Returned(<<>>)

\* case _: raise NotImplementedError
DefaultCase(node) == Raised("NotImplementedError")

RECURSIVE fields_from_selections(_, _)
\* _fields_from_selections: the names of the selections, in order, or the
\* exception the walk raised
fields_from_selections(i, selections) ==
    IF selections = <<>> THEN Returned(<<>>)
    ELSE LET selection == i.ast[Head(selections)]
             names ==
                 CASE selection.kind = "FieldNode" ->
                          FieldCase(selection,
                                    IF selection.selection_set # PyNone
                                    THEN fields_from_selections(
                                             i, selection.selection_set.selections)
                                    ELSE Returned(<<>>))
                   [] selection.kind = "InlineFragmentNode" ->
                          fields_from_selections(i, selection.selection_set.selections)
                   [] selection.kind = "FragmentSpreadNode" ->
                          fields_from_selections(
                              i, i.fragments[selection.name].selection_set.selections)
                   [] OTHER -> DefaultCase(selection)
         IN  IF names.status = "raised" THEN names
             ELSE LET rest == fields_from_selections(i, Tail(selections))
                  IN  IF rest.status = "raised" THEN rest
                      ELSE Returned(names.value \o rest.value)

RECURSIVE UpdateNames(_, _, _)
\* the loop of selected_fields over info.field_nodes: names.update(...)
UpdateNames(i, field_nodes, names) ==
    IF field_nodes = <<>> THEN Returned(names)
    ELSE LET node == Head(field_nodes)
         IN  IF node.selection_set = PyNone
             THEN UpdateNames(i, Tail(field_nodes), names)
             ELSE LET got == fields_from_selections(i, node.selection_set.selections)
                  IN  IF got.status = "raised" THEN got
                      ELSE UpdateNames(i, Tail(field_nodes),
                                       names \cup {got.value[k] : k \in DOMAIN got.value})

\* the orders in which a set may be iterated
Orders(set) ==
    {order \in [1..Cardinality(set) -> set] :
        \A k, l \in DOMAIN order : k # l => order[k] # order[l]}

\* selected_fields(info, model): one attribute per name of the set, in the
\* order the set is iterated
selected_fields ==
    /\ result = Pending
    /\ LET names == UpdateNames(info, info.field_nodes, {})
       IN  IF names.status = "raised"
           THEN result' = names
           ELSE \E order \in Orders(names.value) :
                    result' = Returned([k \in DOMAIN order |-> GetAttr(order[k])])
    /\ UNCHANGED <<info, stmtVars, serverVars>>

(***************************************************************************)
(* graphql_server: the handler of framework_utils/fastapi.py, which reads   *)
(* the request body inside `async with session_gen as session`, and the    *)
(* one of fastapi_handlers/api.py, which reads it before. Every await may  *)
(* return, raise, or be cancelled. session_gen is the caller's context     *)
(* manager: entering it yields the session, leaving it releases it.        *)
(***************************************************************************)
Requests == 1..NumRequests
Handlers == {"framework_utils", "fastapi_handlers"}
Awaited == {"ok", "raise", "cancel"}

NoOutcome == [kind |-> "running"]
ReturnedResult(flag) == [kind |-> "returned", success |-> flag]
Propagated(e) == [kind |-> e]

\* the exception an await that did not return leaves behind
Exception(o) == IF o = "raise" THEN "raised" ELSE "cancelled"

\* where a handler begins: at its `async with`, or at its request.json()
FirstStep(h) == IF h = "framework_utils" THEN "aenter" ELSE "json"

ServerStart(handlers) ==
    /\ handler = handlers
    /\ pc = [r \in Requests |-> FirstStep(handlers[r])]
    /\ session = [r \in Requests |-> "none"]
    /\ exc = [r \in Requests |-> "none"]
    /\ used = [r \in Requests |-> FALSE]
    /\ success = [r \in Requests |-> "unset"]
    /\ outcome = [r \in Requests |-> NoOutcome]

\* no request is being served
ServerIdle == ServerStart([r \in Requests |-> "framework_utils"])

\* an exception outside the `async with`: it leaves graphql_server at once
Propagate(r, e) ==
    /\ pc' = [pc EXCEPT ![r] = "done"]
    /\ outcome' = [outcome EXCEPT ![r] = Propagated(e)]
    /\ UNCHANGED exc

\* the body as it would leave with the session entered by hand and
\* released after the body, without try/finally
LeaveBody_NoFinally(r, e) ==
    IF e = "none"
    THEN /\ pc' = [pc EXCEPT ![r] = "aexit"]
         /\ exc' = [exc EXCEPT ![r] = e]
         /\ UNCHANGED outcome
    ELSE Propagate(r, e)

\* the end of the body of `async with`, by return or by exception e:
\* __aexit__ runs next
LeaveBody(r, e) ==
    /\ pc' = [pc EXCEPT ![r] = "aexit"]
    /\ exc' = [exc EXCEPT ![r] = e]
    /\ UNCHANGED outcome

\* async with session_gen as session: __aenter__
Enter(r, o) ==
    /\ pc[r] = "aenter"
    /\ IF o = "ok"
       THEN /\ session' = [session EXCEPT ![r] = "acquired"]
            /\ pc' = [pc EXCEPT ![r] =
                        IF handler[r] = "framework_utils" THEN "json" ELSE "graphql"]
            /\ UNCHANGED <<exc, outcome>>
       ELSE /\ Propagate(r, Exception(o))
            /\ UNCHANGED session
    /\ UNCHANGED <<handler, used, success>>

\* await request.json()
ReadBody(r, o) ==
    /\ pc[r] = "json"
    /\ IF o = "ok"
       THEN /\ pc' = [pc EXCEPT ![r] =
                        IF handler[r] = "framework_utils" THEN "context" ELSE "aenter"]
            /\ UNCHANGED <<exc, outcome>>
       ELSE IF handler[r] = "framework_utils"
            THEN LeaveBody(r, Exception(o))
            ELSE Propagate(r, Exception(o))
    /\ UNCHANGED <<handler, session, used, success>>

\* context(request=request, db_session=session): the model's validation
\* may raise
BuildContext(r, o) ==
    /\ pc[r] = "context"
    /\ o # "cancel"
    /\ IF o = "ok"
       THEN /\ pc' = [pc EXCEPT ![r] = "graphql"]
            /\ UNCHANGED <<exc, outcome>>
       ELSE LeaveBody(r, Exception(o))
    /\ UNCHANGED <<handler, session, used, success>>

\* a resolver, run by graphql(...), works on the session of the context
Resolve(r) ==
    /\ pc[r] = "graphql"
    /\ used' = [used EXCEPT ![r] = TRUE]
    /\ UNCHANGED <<handler, pc, session, exc, success, outcome>>

\* success, result = await graphql(...)
Execute(r, o, ok) ==
    /\ pc[r] = "graphql"
    /\ IF o = "ok"
       THEN /\ LeaveBody(r, "none")
            /\ success' = [success EXCEPT ![r] = ok]
       ELSE /\ LeaveBody(r, Exception(o))
            /\ UNCHANGED success
    /\ UNCHANGED <<handler, session, used>>

\* __aexit__ of session_gen, then `return result` or the exception again.
\* The provider closes the session whatever happens, also when the
\* closing is cancelled, and then the cancellation leaves the handler.
Exit(r, o) ==
    /\ pc[r] = "aexit"
    /\ o # "raise"
    /\ session' = [session EXCEPT ![r] = "released"]
    /\ pc' = [pc EXCEPT ![r] = "done"]
    /\ outcome' = [outcome EXCEPT ![r] =
                     IF exc[r] # "none" THEN Propagated(exc[r])
                     ELSE IF o = "cancel" THEN Propagated("cancelled")
                     ELSE ReturnedResult(success[r])]
    /\ UNCHANGED <<handler, exc, used, success>>


(***************************************************************************)
(* The calls a client makes: any method, arguments from small sets.        *)
(***************************************************************************)
UserSelect == SelectOf("user.id, user.name, user.age", "user")
CountSelect == SelectOf("count(*) AS count_1", "")
Selects == {UserSelect, CountSelect}

Age == Column("age", TRUE)
Name == Column("name", FALSE)
Columns == {Age, Name}
\* the values a client compares a column with: integers with age, strings
\* with name
Scalars(c) ==
    IF c = Age THEN {PyNone, PyInt(0), PyInt(18)}
    ELSE {PyNone, PyStr(""), PyStr("John")}
Collections(c) ==
    IF c = Age THEN {PyNone, PyList(<<>>), PyList(<<PyInt(18), PyInt(25), PyInt(30)>>)}
    ELSE {PyNone, PyList(<<>>), PyList(<<PyStr("a")>>)}
Patterns == {PyNone, PyStr(""), PyStr("%John%")}
Nums == {PyNone, PyInt(0), PyInt(1), PyInt(10), PyInt(-1)}
Separators == {" - ", ""}

\* no selection tree: a resolver that has not been called
NoInfo == [field_nodes |-> <<>>, fragments |-> <<>>, ast |-> <<>>]

Init ==
    /\ \E select \in Selects : StmtInit(select)
    /\ calls = <<>>
    /\ info = NoInfo
    /\ result = Pending
    /\ ServerIdle

\* a call of the client on its builder, MaxOps operations at most
Build(operation) ==
    /\ ncalls < MaxOps
    /\ operation
    /\ calls' = calls
    /\ UNCHANGED <<infoVars, serverVars>>

Inspect(read) ==
    /\ read
    /\ calls' = calls
    /\ UNCHANGED <<infoVars, serverVars>>

Next ==
    \/ \E c \in Columns : \E op \in Scalars(c) : Build(lte_filter(c, op))
    \/ \E c \in Columns : \E op \in Scalars(c) : Build(gte_filter(c, op))
    \/ \E c \in Columns : \E op \in Scalars(c) : Build(lt_filter(c, op))
    \/ \E c \in Columns : \E op \in Scalars(c) : Build(gt_filter(c, op))
    \/ \E c \in Columns : \E op \in Scalars(c) : Build(eq_filter(c, op))
    \/ \E c \in Columns : \E ops \in Collections(c) : Build(con_filter(c, ops))
    \/ \E c \in Columns : \E ops \in Collections(c) : Build(not_con_filter(c, ops))
    \/ \E c \in Columns : \E ops \in Collections(c) : Build(con_model_filter(c, ops))
    \/ \E op \in Patterns : Build(like_filter(Name, op))
    \/ \E c \in Columns : \E op \in Scalars(c) : Build(where_filter(c, op))
    \/ \E c \in Columns \cup {PyNone} : Build(ordered_by(c))
    \/ \E num \in Nums : Build(limit(num))
    \/ \E num \in Nums : Build(offset(num))
    \/ \E pre \in Separators : Inspect(log(pre))
    \/ Inspect(call)

Spec == Init /\ [][Next]_vars

(***************************************************************************)
(* The usage the module documents: gte_filter, lt_filter, ordered_by,      *)
(* limit, offset, then log, each with arguments from a small set that      *)
(* holds the documented one.                                               *)
(***************************************************************************)
UsageInit ==
    /\ StmtInit(UserSelect)
    /\ calls = <<>>
    /\ info = NoInfo
    /\ result = Pending
    /\ ServerIdle

\* the k-th call of the documented chain
Step(k, operation) ==
    /\ Len(calls) = k - 1
    /\ operation
    /\ calls' = Append(calls, last')
    /\ UNCHANGED <<infoVars, serverVars>>

UsageNext ==
    \/ \E op \in {PyInt(18), PyInt(21), PyNone} : Step(1, gte_filter(Age, op))
    \/ \E op \in {PyInt(30), PyInt(65), PyNone} : Step(2, lt_filter(Age, op))
    \/ \E c \in {Name, Age, PyNone} : Step(3, ordered_by(c))
    \/ \E num \in {PyInt(10), PyInt(1), PyNone} : Step(4, limit(num))
    \/ \E num \in {PyInt(0), PyInt(5), PyNone} : Step(5, offset(num))
    \/ Step(6, call)
    \/ \E pre \in Separators : Step(7, log(pre))

SpecUsage == UsageInit /\ [][UsageNext]_vars


(***************************************************************************)
(* A resolver calls selected_fields once, on any tree of MaxNodes nodes at *)
(* most.                                                                   *)
(***************************************************************************)
InfoInit ==
    /\ \E n \in 0..MaxNodes : \E shape \in Shapes(n) : info = InfoOf(shape)
    /\ result = Pending

SelInit ==
    /\ InfoInit
    /\ StmtInit(UserSelect)
    /\ calls = <<>>
    /\ ServerIdle

SelNext == selected_fields

SpecSel == SelInit /\ [][SelNext]_vars


(***************************************************************************)
(* NumRequests requests are served at once, each by either handler, each  *)
(* with a session_gen of its own.                                          *)
(***************************************************************************)
ServerInit ==
    /\ \E handlers \in [Requests -> Handlers] : ServerStart(handlers)
    /\ StmtInit(UserSelect)
    /\ calls = <<>>
    /\ info = NoInfo
    /\ result = Pending

\* a step of the handler of one request
Serve(step) ==
    /\ step
    /\ UNCHANGED <<stmtVars, infoVars>>

ServerNext ==
    \/ \E r \in Requests, o \in Awaited : Serve(Enter(r, o))
    \/ \E r \in Requests, o \in Awaited : Serve(ReadBody(r, o))
    \/ \E r \in Requests, o \in Awaited : Serve(BuildContext(r, o))
    \/ \E r \in Requests : Serve(Resolve(r))
    \/ \E r \in Requests, o \in Awaited, ok \in {"True", "False"} : Serve(Execute(r, o, ok))
    \/ \E r \in Requests, o \in Awaited : Serve(Exit(r, o))

SpecServer == ServerInit /\ [][ServerNext]_vars

(***************************************************************************)
(* Properties of Stmt.                                                     *)
(***************************************************************************)
Falsy == {PyNone, PyInt(0), PyStr(""), PyList(<<>>)}

ComparisonSymbol ==
    [lte_filter |-> "<=", gte_filter |-> ">=", lt_filter |-> "<", gt_filter |-> ">",
     eq_filter |-> "=="]

LastEntry == log_list[Len(log_list)]

\* C1: a comparison operation (lte, gte, lt, gt, eq) called with a truthy
\* argument appends exactly the entry "<column> <op> <value>" to the trace
\* and the predicate column <op> value to the query; called with None or a
\* falsy argument it leaves the query and the trace as they were.
C1_Comparison ==
    [][last'.m \in DOMAIN ComparisonSymbol =>
         LET c == last'.col
             a == last'.arg
             sym == ComparisonSymbol[last'.m]
         IN  IF a \in Falsy
             THEN stmt' = stmt /\ log_list' = log_list
             ELSE /\ log_list' =
                        Append(log_list, c.name \o " " \o sym \o " " \o PyFormat(a))
                  /\ stmt'.chain =
                        Append(stmt.chain,
                               [m |-> "filter",
                                e |-> [table |-> c.table, col |-> c.name,
                                       cmp |-> sym, v |-> a]])
                  /\ stmt'.cols = stmt.cols /\ stmt'.from = stmt.from]_vars

C1_Witness ==
    /\ last = [m |-> "eq_filter", col |-> Name, arg |-> PyStr("John")]
    /\ Len(log_list) = 2
    /\ log_list[1] = "age <= 18"
    /\ LastEntry = "name == John"

\* C2: the length of the trace equals the number of operations called so
\* far whose argument was neither None nor empty.
C2_TraceLengthCountsPresent == Len(log_list) = npresent

\* the entry the trace holds for a clause of the query
ClauseEntry(c) ==
    CASE c.m = "order_by" -> "order by " \o c.e.name
      [] c.m = "limit" -> "limit " \o PyFormat(c.e)
      [] c.m = "offset" -> "offset " \o PyFormat(c.e)
      [] c.m = "where" -> c.e.col \o " where " \o PyFormat(c.e.v)
      [] c.m = "filter" ->
           c.e.col \o " "
             \o (CASE c.e.cmp = "IN" -> "in"
                   [] c.e.cmp = "NOT IN" -> "not in"
                   [] c.e.cmp = "ANY name IN" -> "relationship in"
                   [] c.e.cmp = "LIKE" -> "like"
                   [] OTHER -> c.e.cmp)
             \o " " \o PyFormat(c.e.v)

IsPrefix(s, t) == Len(s) <= Len(t) /\ SubSeq(t, 1, Len(s)) = s

\* C3: the trace is append-only and keeps the order of application: every
\* call leaves the old trace as a prefix of the new one, and the k-th entry
\* of the trace is the entry of the k-th clause applied to the query, so
\* that nothing is removed, reordered or merged (a clause applied twice
\* has two entries).
C3_AppendOnly ==
    /\ [][IsPrefix(log_list, log_list')]_vars
    /\ [](/\ Len(log_list) = Len(stmt.chain)
          /\ \A k \in 1..Len(log_list) : log_list[k] = ClauseEntry(stmt.chain[k]))

C3_Witness ==
    /\ Len(log_list) = 2
    /\ log_list[1] = "age >= 18"
    /\ log_list[2] = "age >= 18"

MembershipWord == [con_filter |-> "in", not_con_filter |-> "not in"]
MembershipSql == [con_filter |-> "IN", not_con_filter |-> "NOT IN"]

\* C4: con_filter and not_con_filter called with None or an empty
\* collection leave the query and the trace as they were; called with a
\* non-empty collection they add the membership predicate to the query and
\* append the one entry "<column> in <list>" or "<column> not in <list>",
\* the list written out in full.
C4_Membership ==
    /\ [][last'.m \in DOMAIN MembershipWord =>
            LET c == last'.col
                a == last'.arg
            IN  IF a \in {PyNone, PyList(<<>>)}
                THEN stmt' = stmt /\ log_list' = log_list
                ELSE /\ log_list' =
                           Append(log_list,
                                  c.name \o " " \o MembershipWord[last'.m] \o " "
                                    \o PyFormat(a))
                     /\ stmt'.chain =
                           Append(stmt.chain,
                                  [m |-> "filter",
                                   e |-> [table |-> c.table, col |-> c.name,
                                          cmp |-> MembershipSql[last'.m], v |-> a]])]_vars
    /\ [](last = [m |-> "con_filter", col |-> Age,
                  arg |-> PyList(<<PyInt(18), PyInt(25), PyInt(30)>>)]
            => LastEntry = "age in [18, 25, 30]")
    /\ [](last = [m |-> "not_con_filter", col |-> Name, arg |-> PyList(<<PyStr("a")>>)]
            => LastEntry = "name not in ['a']")

C4_Witness ==
    /\ last.m = "not_con_filter"
    /\ log_list = <<"age in [18, 25, 30]", "name not in ['a']">>

\* C5: ordered_by(None) leaves the query and the trace as they were;
\* ordered_by of any column, also of one whose truth value is false, adds
\* the ORDER BY clause and appends "order by <column>".
C5_OrderedBy ==
    [][last'.m = "ordered_by" =>
         LET c == last'.col
         IN  IF c = PyNone
             THEN stmt' = stmt /\ log_list' = log_list
             ELSE /\ log_list' = Append(log_list, "order by " \o c.name)
                  /\ stmt'.chain = Append(stmt.chain, [m |-> "order_by", e |-> c])]_vars

C5_Witness ==
    /\ last.m = "ordered_by"
    /\ last.col = Name
    /\ ~Name.truthy
    /\ LastEntry = "order by name"
    /\ stmt.chain[Len(stmt.chain)].m = "order_by"

DocumentedChain ==
    << [m |-> "gte_filter", col |-> Age, arg |-> PyInt(18)],
       [m |-> "lt_filter", col |-> Age, arg |-> PyInt(30)],
       [m |-> "ordered_by", col |-> Name, arg |-> Name],
       [m |-> "limit", col |-> PyNone, arg |-> PyInt(10)],
       [m |-> "offset", col |-> PyNone, arg |-> PyInt(0)],
       [m |-> "__call__", col |-> PyNone, arg |-> PyNone],
       [m |-> "log", col |-> PyNone, arg |-> PyStr(" - ")] >>

\* C7: after the documented chain gte_filter(age, 18), lt_filter(age, 30),
\* ordered_by(name), limit(10), offset(0) on a fresh builder, log() gives
\* the query line and then five entries: ">= 18", "< 30", "order by name",
\* "limit 10" and "offset 0".
C7_DocumentedLog ==
    calls = DocumentedChain =>
        ret = PyStr(FirstLine(stmt) \o "\n"
                      \o " - age >= 18\n"
                      \o " - age < 30\n"
                      \o " - order by name\n"
                      \o " - limit 10\n"
                      \o " - offset 0\n")

\* the text log(pre) is to give after the line `first`
LogText(first, pre) ==
    first \o "\n" \o JoinStr([k \in 1..Len(log_list) |-> pre \o log_list[k] \o "\n"], "")

\* C8, as stated: log(pre) gives the first line of the query the builder
\* was created with, then every entry of the trace in order, each after
\* pre and on a line of its own.
C8_LogOfOriginal ==
    last.m = "log" => ret = PyStr(LogText(FirstLine(orig), last.arg.s))

\* C8, amended: log(pre) gives the first line of the text of the current
\* query, which is the first line of the query the builder was created
\* with when that query has a FROM clause; then every entry of the trace in
\* order, each after pre and on a line of its own; and the call changes
\* neither the query nor the trace.
C8_LogOfCurrent ==
    /\ [](last.m = "log" =>
            /\ ret = PyStr(LogText(Head(StrSelect(stmt)), last.arg.s))
            /\ orig.from # "" => Head(StrSelect(stmt)) = Head(StrSelect(orig)))
    /\ [][last'.m = "log" => stmt' = stmt /\ log_list' = log_list]_vars

C8_Witness ==
    /\ last.m = "log"
    /\ orig = UserSelect
    /\ ret = PyStr("SELECT user.id, user.name, user.age \n"
                     \o " - age >= 18\n" \o " - order by name\n")


(***************************************************************************)
(* Properties of selected_fields.                                          *)
(***************************************************************************)
SelectionsOf(node) ==
    IF node.selection_set = PyNone THEN {}
    ELSE {node.selection_set.selections[k] : k \in DOMAIN node.selection_set.selections}

\* the nodes one step below the nodes of `seen`: the selections of a field
\* or an inline fragment, and those of the fragment a spread names
Below(seen) ==
    UNION {CASE info.ast[n].kind \in {"FieldNode", "InlineFragmentNode"} ->
                    SelectionsOf(info.ast[n])
             [] info.ast[n].kind = "FragmentSpreadNode" ->
                    SelectionsOf(info.fragments[info.ast[n].name])
             [] OTHER -> {} : n \in seen}

RECURSIVE Closure(_)
Closure(seen) == IF Below(seen) \subseteq seen THEN seen ELSE Closure(seen \cup Below(seen))

\* every node reachable from the sub-selections of the root field nodes
Walked == Closure(UNION {SelectionsOf(info.field_nodes[r]) : r \in DOMAIN info.field_nodes})

WalkedFieldNames == {info.ast[n].name : n \in {w \in Walked : info.ast[w].kind = "FieldNode"}}

OnlyKnownKinds == \A n \in DOMAIN info.ast : info.ast[n].kind # "OtherNode"

\* C9: on a tree of field nodes, inline fragments and fragment spreads
\* only, selected_fields returns one attribute for each distinct name of
\* the field nodes reachable from the sub-selections of the root fields,
\* through inline fragments and spreads and into nested fields, and no
\* other: a name reached twice is there once, and the names of fragments
\* and of the root fields are not there.
C9_SelectedFields ==
    (result # Pending /\ OnlyKnownKinds) =>
        /\ result.status = "returned"
        /\ {result.value[k] : k \in DOMAIN result.value}
               = {GetAttr(name) : name \in WalkedFieldNames}
        /\ Len(result.value) = Cardinality(WalkedFieldNames)
        /\ \A k \in DOMAIN result.value :
               result.value[k].key \notin {FragmentName} \cup
                   {RootNames[r] : r \in DOMAIN RootNames}

C9_Witness ==
    /\ result.status = "returned"
    /\ OnlyKnownKinds
    /\ Len(result.value) = 1
    /\ \E n \in Walked : info.ast[n].kind = "FragmentSpreadNode"
    /\ \E n \in Walked :
           /\ info.ast[n].kind = "FieldNode"
           /\ n \in SelectionsOf(info.fragments[FragmentName])
           /\ \E m \in Walked \ {n} :
                  /\ info.ast[m].kind = "FieldNode"
                  /\ info.ast[m].name = info.ast[n].name
                  /\ m \in SelectionsOf(info.field_nodes[1])

\* C10: when a node reachable in the walk, at any depth, is of a kind
\* other than field, inline fragment and fragment spread, selected_fields
\* raises NotImplementedError and returns nothing, not even the names
\* gathered before the node.
C10_UnsupportedKindRaises ==
    (result # Pending /\ \E n \in Walked : info.ast[n].kind = "OtherNode") =>
        result = Raised("NotImplementedError")

C10_Witness ==
    /\ result = Raised("NotImplementedError")
    /\ \E n \in Walked :
           /\ info.ast[n].kind = "OtherNode"
           /\ n \in SelectionsOf(info.fragments[FragmentName])
           /\ \E m \in Walked : m < n /\ info.ast[m].kind = "FieldNode"

(***************************************************************************)
(* Properties of graphql_server.                                           *)
(***************************************************************************)
\* C11: in graphql_server a session that was acquired is released by the
\* time the handler has finished, however it finishes: by returning the
\* result (success true or false), by an exception of request.json() or
\* of the execution, or by cancellation; and the execution, and every use
\* a resolver makes of the session, lies between its acquisition and its
\* release.
C11_SessionReleased ==
    /\ [](\A r \in Requests : pc[r] = "done" => session[r] # "acquired")
    /\ [](\A r \in Requests : pc[r] = "graphql" => session[r] = "acquired")
    /\ [][\A r \in Requests :
            /\ used'[r] # used[r] => session[r] = "acquired" /\ session'[r] = "acquired"
            /\ session[r] = "released" => session'[r] = "released"]_vars

C11_Witness ==
    \E r, q \in Requests :
        /\ handler[r] = "framework_utils" /\ handler[q] = "fastapi_handlers"
        /\ pc[r] = "done" /\ pc[q] = "done"
        /\ session[r] = "released" /\ session[q] = "released"
        /\ used[r] /\ used[q]
        /\ outcome[r] = Propagated("cancelled")
        /\ outcome[q] = ReturnedResult("False")

====
